---- MODULE Spec2Model ----
(***************************************************************************)
(* Configuration bootstrap of wtf (package cfg): path resolution, the      *)
(* directory and file provisioners, the permission enforcer, the legacy    *)
(* migrator and Initialize, over an explicit model of the filesystem.      *)
(*                                                                         *)
(* Paths are sequences of one-character strings.  The filesystem is a      *)
(* function from absolute paths to nodes.  Every system call may fail,     *)
(* which the actions choose nondeterministically.                          *)
(***************************************************************************)
EXTENDS Integers, Sequences, FiniteSets, TLC

(***************************************************************************)
(* Package constants                                                       *)
(***************************************************************************)
XdgConfigDir == <<"~", "/", ".", "c", "o", "n", "f", "i", "g", "/">>

WtfConfigDirV1 == <<"~", "/", ".", "w", "t", "f", "/">>

WtfConfigDirV2 == <<"~", "/", ".", "c", "o", "n", "f", "i", "g", "/", "w", "t", "f", "/">>

WtfConfigFile == <<"c", "o", "n", "f", "i", "g", ".", "y", "m", "l">>

WtfSecretsFile == <<"s", "e", "c", "r", "e", "t", "s", ".", "y", "m", "l">>

\* Template contents; only their being fixed and non-empty matters.
defaultConfigFile == "defaultConfigFile"

defaultSecretsFile == "defaultSecretsFile"

\* 0600, the mode chmodConfigFile / chmodSecretsFile and WriteFile ask for.
OwnerRW == 384

\* 0666, the permission os.Create asks for.
CreatePerm == 438

\* os.ModePerm, 0777, the permission Mkdir is called with.
ModePerm == 511

(***************************************************************************)
(* Environment the model is explored in                                    *)
(***************************************************************************)
\* Number of Initialize runs explored in one behaviour.
MaxRuns == 2

\* Number of failing system calls explored in one run of Initialize.
MaxFaults == 2

\* The home directory user.Current() reports when the lookup succeeds.
HomeDirs == {<<"/", "h">>}

\* Process umasks explored: 022.
Umasks == {18}

\* Names found below a configuration root besides the two managed files.
SubDirName == <<"d">>

ExtraFile == <<"d", "/", "x">>

\* Contents a user may have put in a file before the first run.
UserContents == {"", "a: 1"}

Sep == "/"

(***************************************************************************)
(* Bit arithmetic on permission words                                      *)
(***************************************************************************)
RECURSIVE AndNot(_, _)
\* perm &^ mask
AndNot(perm, mask) ==
    IF perm = 0 THEN 0
    ELSE (IF perm % 2 = 1 /\ mask % 2 = 0 THEN 1 ELSE 0)
         + 2 * AndNot(perm \div 2, mask \div 2)

(***************************************************************************)
(* path/filepath: Clean and Join (Unix)                                    *)
(***************************************************************************)
RECURSIVE Segs(_)
\* The segments of s between separators (strings.Split(s, "/")).
Segs(s) ==
    IF s = <<>> THEN << <<>> >>
    ELSE LET r == Segs(Tail(s)) IN
         IF Head(s) = Sep THEN << <<>> >> \o r
         ELSE << <<Head(s)>> \o Head(r) >> \o Tail(r)

DotDot == <<".", ".">>

RECURSIVE CleanSegs(_, _, _)
\* Lexical processing of the segments: drop empty and ".", resolve "..".
CleanSegs(segs, out, rooted) ==
    IF segs = <<>> THEN out
    ELSE LET s == Head(segs)
             rest == Tail(segs)
         IN  IF s = <<>> \/ s = <<".">> THEN CleanSegs(rest, out, rooted)
             ELSE IF s = DotDot
                  THEN IF out # <<>> /\ out[Len(out)] # DotDot
                       THEN CleanSegs(rest, SubSeq(out, 1, Len(out) - 1), rooted)
                       ELSE IF rooted THEN CleanSegs(rest, out, rooted)
                       ELSE CleanSegs(rest, Append(out, s), rooted)
                  ELSE CleanSegs(rest, Append(out, s), rooted)

RECURSIVE JoinSegs(_)
JoinSegs(segs) ==
    IF segs = <<>> THEN <<>>
    ELSE IF Len(segs) = 1 THEN Head(segs)
    ELSE Head(segs) \o <<Sep>> \o JoinSegs(Tail(segs))

\* filepath.Clean
Clean(p) ==
    IF p = <<>> THEN <<".">>
    ELSE LET rooted == p[1] = Sep
             body == JoinSegs(CleanSegs(Segs(p), <<>>, rooted))
         IN  IF rooted THEN <<Sep>> \o body
             ELSE IF body = <<>> THEN <<".">> ELSE body

\* filepath.Join(a, b): empty elements are ignored, the result is cleaned.
Join(a, b) ==
    IF a = <<>> /\ b = <<>> THEN <<>>
    ELSE IF a = <<>> THEN Clean(b)
    ELSE IF b = <<>> THEN Clean(a)
    ELSE Clean(a \o <<Sep>> \o b)

\* fmt.Sprintf("%s%s", a, b)
Sprintf2(a, b) == a \o b

\* fmt.Sprintf("%s/%s", a, b)
SprintfSlash(a, b) == a \o <<Sep>> \o b

(***************************************************************************)
(* Path resolution                                                         *)
(***************************************************************************)
\* home(): the lookup fails when the user record is unreadable or its home
\* directory is empty; h = <<>> stands for both.
home(h) == IF h = <<>> THEN [dir |-> <<>>, err |-> "nohome"]
           ELSE [dir |-> h, err |-> "nil"]

\* expandHomeDir appending the rest of the path to the home directory as it is.
expandHomeDir_Concat(path, h) ==
    IF Len(path) = 0 THEN [path |-> path, err |-> "nil"]
    ELSE IF path[1] # "~" THEN [path |-> path, err |-> "nil"]
    ELSE IF Len(path) > 1 /\ path[2] # "/" /\ path[2] # "\\"
         THEN [path |-> <<>>, err |-> "format"]
    ELSE IF home(h).err # "nil" THEN [path |-> <<>>, err |-> home(h).err]
    ELSE [path |-> home(h).dir \o SubSeq(path, 2, Len(path)), err |-> "nil"]

\* expandHomeDir looking up the home directory before it checks the format.
expandHomeDir_HomeFirst(path, h) ==
    IF Len(path) = 0 THEN [path |-> path, err |-> "nil"]
    ELSE IF path[1] # "~" THEN [path |-> path, err |-> "nil"]
    ELSE IF home(h).err # "nil" THEN [path |-> <<>>, err |-> home(h).err]
    ELSE IF Len(path) > 1 /\ path[2] # "/" /\ path[2] # "\\"
         THEN [path |-> <<>>, err |-> "format"]
    ELSE [path |-> Join(home(h).dir, SubSeq(path, 2, Len(path))), err |-> "nil"]

expandHomeDir(path, h) ==
    IF Len(path) = 0 THEN [path |-> path, err |-> "nil"]
    ELSE IF path[1] # "~" THEN [path |-> path, err |-> "nil"]
    ELSE IF Len(path) > 1 /\ path[2] # "/" /\ path[2] # "\\"
         THEN [path |-> <<>>, err |-> "format"]
    ELSE IF home(h).err # "nil" THEN [path |-> <<>>, err |-> home(h).err]
    ELSE [path |-> Join(home(h).dir, SubSeq(path, 2, Len(path))), err |-> "nil"]

WtfConfigDir(h) ==
    LET r == expandHomeDir(WtfConfigDirV2, h)
    IN  IF r.err # "nil" THEN [path |-> <<>>, err |-> r.err] ELSE r

(***************************************************************************)
(* The filesystem                                                          *)
(***************************************************************************)
NoNode == [kind |-> "none", data |-> "", mode |-> 0]

DirNode(mode) == [kind |-> "dir", data |-> "", mode |-> mode]

FileNode(data, mode) == [kind |-> "file", data |-> data, mode |-> mode]

\* The names the model keeps below a configuration root.
RelNames == {WtfConfigFile, WtfSecretsFile, SubDirName, ExtraFile}

PathsUnder(root) == {root} \cup {SprintfSlash(root, n) : n \in RelNames}

XdgOf(h) == expandHomeDir(XdgConfigDir, h).path

V1Of(h) == expandHomeDir(WtfConfigDirV1, h).path

V2Of(h) == expandHomeDir(WtfConfigDirV2, h).path

AllPaths == UNION {{h, XdgOf(h)} \cup PathsUnder(V1Of(h)) \cup PathsUnder(V2Of(h)) : h \in HomeDirs}

\* The proper ancestors of p, the root directory excluded.
Ancestors(p) == {SubSeq(p, 1, i - 1) : i \in {j \in 3..Len(p) : p[j] = Sep}}

Parent(p) ==
    IF Ancestors(p) = {} THEN <<Sep>>
    ELSE CHOOSE a \in Ancestors(p) : \A b \in Ancestors(p) : Len(b) <= Len(a)

\* p is root or lies below it.
IsUnder(p, root) == p = root \/ root \in Ancestors(p)

Kind(f, p) ==
    IF p \in DOMAIN f THEN f[p].kind
    ELSE IF p = <<Sep>> THEN "dir" ELSE "none"

Exists(f, p) == Kind(f, p) # "none"

\* What an undisturbed stat reports: "ok", "notexist" (ENOENT; also for the
\* empty path) or "err" (ENOTDIR when a component of the prefix is a file).
StatResult(f, p) ==
    IF p = <<>> THEN "notexist"
    ELSE IF Exists(f, p) THEN "ok"
    ELSE IF \E a \in Ancestors(p) : Kind(f, a) = "file" THEN "err"
    ELSE "notexist"

\* os.Stat: the undisturbed result, or an error that is not ENOENT
\* (EACCES, EIO, ...), whatever the state of the path.
StatOutcomes(f, p) ==
    IF p = <<>> THEN {"notexist"} ELSE {StatResult(f, p), "err"}

\* os.IsNotExist(err)
IsNotExist(st) == st = "notexist"

Ev(op, p, res) == [op |-> op, path |-> p, res |-> res]

Res(ok) == IF ok THEN "ok" ELSE "fail"

\* os.Mkdir(p, perm)
MkdirOutcomes(f, p, perm, um) ==
    {[fs |-> f, ok |-> FALSE]} \cup
    (IF p \in DOMAIN f /\ ~Exists(f, p) /\ Kind(f, Parent(p)) = "dir"
     THEN {[fs |-> [f EXCEPT ![p] = DirNode(AndNot(perm, um))], ok |-> TRUE]}
     ELSE {})

\* os.Create(p): O_RDWR|O_CREATE|O_TRUNC with permission 0666.
CreateOutcomes(f, p, um) ==
    {[fs |-> f, ok |-> FALSE]} \cup
    (IF p \in DOMAIN f /\ Kind(f, p) # "dir" /\ Kind(f, Parent(p)) = "dir"
     THEN {[fs |-> [f EXCEPT ![p] =
                      FileNode("", IF Exists(f, p) THEN f[p].mode
                                   ELSE AndNot(CreatePerm, um))],
            ok |-> TRUE]}
     ELSE {})

\* What is left of data after a write that failed part-way.
PartialWrites(data) == {"", "partial"}

\* ioutil.WriteFile(p, data, perm): O_WRONLY|O_CREATE|O_TRUNC, then Write.
WriteFileOutcomes(f, p, data, perm, um) ==
    LET can == p \in DOMAIN f /\ Kind(f, p) # "dir" /\ Kind(f, Parent(p)) = "dir"
        mode == IF Exists(f, p) THEN f[p].mode ELSE AndNot(perm, um)
    IN  {[fs |-> f, ok |-> FALSE]} \cup
        (IF can
         THEN {[fs |-> [f EXCEPT ![p] = FileNode(data, mode)], ok |-> TRUE]} \cup
              {[fs |-> [f EXCEPT ![p] = FileNode(d, mode)], ok |-> FALSE] :
                 d \in PartialWrites(data)}
         ELSE {})

\* os.Chmod(p, mode)
ChmodOutcomes(f, p, mode) ==
    {[fs |-> f, ok |-> FALSE]} \cup
    (IF p \in DOMAIN f /\ Exists(f, p)
     THEN {[fs |-> [f EXCEPT ![p].mode = mode], ok |-> TRUE]}
     ELSE {})

\* The existing nodes at and below root.
Tree(f, root) == {p \in DOMAIN f : IsUnder(p, root) /\ Exists(f, p)}

Remove(f, S) == [q \in DOMAIN f |-> IF q \in S THEN NoNode ELSE f[q]]

\* RemoveAll that reports success without removing anything.
RemoveAllOutcomes_Skipped(f, p) == {[fs |-> f, ok |-> TRUE]}

\* RemoveAll that empties the directory but leaves it, and reports success.
RemoveAllOutcomes_KeepsRoot(f, p) ==
    {[fs |-> Remove(f, Tree(f, p) \ {p}), ok |-> TRUE]}

\* os.RemoveAll(p): removes the whole tree (an absent path is a success); a
\* failure leaves the root and any part of the tree, children going first.
RemoveAllOutcomes(f, p) ==
    {[fs |-> Remove(f, Tree(f, p)), ok |-> TRUE]} \cup
    {[fs |-> Remove(f, S), ok |-> FALSE] :
       S \in {T \in SUBSET (Tree(f, p) \ {p}) :
                \A q \in T : \A r \in Tree(f, p) : IsUnder(r, q) => r \in T}}

\* Copy(src, dest): copies the tree at src to dest, every node at the same
\* relative path with the same content; directories missing above dest are
\* created.  A failure leaves the source alone and the destination with any
\* part of the tree, parents going first.
CopyInto(f, S, src, dest, um) ==
    [q \in DOMAIN f |->
       IF \E p \in S : q = dest \o SubSeq(p, Len(src) + 1, Len(p))
       THEN f[CHOOSE p \in S : q = dest \o SubSeq(p, Len(src) + 1, Len(p))]
       ELSE IF S # {} /\ q \in Ancestors(dest) /\ ~Exists(f, q)
            THEN DirNode(AndNot(ModePerm, um))
            ELSE f[q]]

CopyOutcomes(f, src, dest, um) ==
    LET nodes == Tree(f, src)
        can == /\ Kind(f, src) = "dir"
               /\ \A a \in Ancestors(dest) : Kind(f, a) # "file"
               /\ \A p \in nodes :
                     LET q == dest \o SubSeq(p, Len(src) + 1, Len(p))
                     IN  q \in DOMAIN f /\ Kind(f, q) \in {"none", f[p].kind}
    IN  {[fs |-> f, ok |-> FALSE]} \cup
        (IF can
         THEN {[fs |-> CopyInto(f, nodes, src, dest, um), ok |-> TRUE]} \cup
              {[fs |-> CopyInto(f, S, src, dest, um), ok |-> FALSE] :
                 S \in {T \in SUBSET nodes :
                          /\ T # nodes
                          /\ \A p \in T : p = src \/ Parent(p) \in T}}
         ELSE {})

(***************************************************************************)
(* The functions of the package.  Each is the set of ways a call can end:  *)
(* the filesystem it leaves, the system calls it made (ev) and how control *)
(* leaves it: "return", "exit" (os.Exit(1)) or "panic".                    *)
(***************************************************************************)
Out(f, ev, exit) == [fs |-> f, ev |-> ev, exit |-> exit]

\* CreateFile calling os.Create without looking whether the file exists.
CreateFile_AlwaysCreate(f, fileName, h, um) ==
    LET configDir == WtfConfigDir(h)
        filePath == SprintfSlash(configDir.path, fileName)
    IN  IF configDir.err # "nil"
        THEN {[fs |-> f, ev |-> <<>>, path |-> <<>>, err |-> configDir.err]}
        ELSE {[fs |-> c.fs,
               ev |-> <<Ev("Create", filePath, Res(c.ok))>>,
               path |-> IF c.ok THEN filePath ELSE <<>>,
               err |-> IF c.ok THEN "nil" ELSE "create"] :
                c \in CreateOutcomes(f, filePath, um)}

\* CreateFile dropping the error of os.Create.
CreateFile_IgnoreCreateErr(f, fileName, h, um) ==
    LET configDir == WtfConfigDir(h)
        filePath == SprintfSlash(configDir.path, fileName)
    IN  IF configDir.err # "nil"
        THEN {[fs |-> f, ev |-> <<>>, path |-> <<>>, err |-> configDir.err]}
        ELSE UNION {
               LET e1 == <<Ev("Stat", filePath, st)>> IN
               IF st = "ok"
               THEN {[fs |-> f, ev |-> e1, path |-> filePath, err |-> "nil"]}
               ELSE IF IsNotExist(st)
               THEN {[fs |-> c.fs,
                      ev |-> e1 \o <<Ev("Create", filePath, Res(c.ok))>>,
                      path |-> filePath,
                      err |-> "nil"] :
                       c \in CreateOutcomes(f, filePath, um)}
               ELSE {[fs |-> f, ev |-> e1, path |-> <<>>, err |-> "stat"]}
               : st \in StatOutcomes(f, filePath)}

\* Outcome of CreateFile: the path and error it returns.
CreateFile(f, fileName, h, um) ==
    LET configDir == WtfConfigDir(h)
        filePath == SprintfSlash(configDir.path, fileName)
    IN  IF configDir.err # "nil"
        THEN {[fs |-> f, ev |-> <<>>, path |-> <<>>, err |-> configDir.err]}
        ELSE UNION {
               LET e1 == <<Ev("Stat", filePath, st)>> IN
               IF st = "ok"
               THEN {[fs |-> f, ev |-> e1, path |-> filePath, err |-> "nil"]}
               ELSE IF IsNotExist(st)
               THEN {[fs |-> c.fs,
                      ev |-> e1 \o <<Ev("Create", filePath, Res(c.ok))>>,
                      path |-> IF c.ok THEN filePath ELSE <<>>,
                      err |-> IF c.ok THEN "nil" ELSE "create"] :
                       c \in CreateOutcomes(f, filePath, um)}
               ELSE {[fs |-> f, ev |-> e1, path |-> <<>>, err |-> "stat"]}
               : st \in StatOutcomes(f, filePath)}

\* chmodFile ending the process when the mode change fails.
chmodFile_Fatal(f, name, h) ==
    LET relPath == Sprintf2(WtfConfigDirV2, name)
        absPath == expandHomeDir(relPath, h).path
    IN  UNION {
          LET e1 == <<Ev("Stat", absPath, st)>> IN
          IF st # "ok" /\ IsNotExist(st)
          THEN {Out(f, e1, "return")}
          ELSE {Out(c.fs, e1 \o <<Ev("Chmod", absPath, Res(c.ok))>>,
                    IF c.ok THEN "return" ELSE "exit") :
                  c \in ChmodOutcomes(f, absPath, OwnerRW)}
          : st \in StatOutcomes(f, absPath)}

chmodFile(f, name, h) ==
    LET relPath == Sprintf2(WtfConfigDirV2, name)
        absPath == expandHomeDir(relPath, h).path
    IN  UNION {
          LET e1 == <<Ev("Stat", absPath, st)>> IN
          IF st # "ok" /\ IsNotExist(st)
          THEN {Out(f, e1, "return")}
          ELSE {Out(c.fs, e1 \o <<Ev("Chmod", absPath, Res(c.ok))>>, "return") :
                  c \in ChmodOutcomes(f, absPath, OwnerRW)}
          : st \in StatOutcomes(f, absPath)}

\* chmodConfigFile applied to the secrets file.
chmodConfigFile_WrongFile(f, h) == chmodFile(f, WtfSecretsFile, h)

chmodConfigFile(f, h) == chmodFile(f, WtfConfigFile, h)

chmodSecretsFile(f, h) == chmodFile(f, WtfSecretsFile, h)

\* createDir calling Mkdir without asking whether the directory exists.
createDir_BlindCreate(f, dir, um) ==
    {Out(m.fs, <<Ev("Mkdir", dir, Res(m.ok))>>, IF m.ok THEN "return" ELSE "exit") :
       m \in MkdirOutcomes(f, dir, ModePerm, um)}

createDir(f, dir, um) ==
    UNION {
      LET e1 == <<Ev("Stat", dir, st)>> IN
      IF IsNotExist(st)
      THEN {Out(m.fs, e1 \o <<Ev("Mkdir", dir, Res(m.ok))>>,
                IF m.ok THEN "return" ELSE "exit") :
              m \in MkdirOutcomes(f, dir, ModePerm, um)}
      ELSE {Out(f, e1, "return")}
      : st \in StatOutcomes(f, dir)}

createXdgConfigDir(f, h, um) == createDir(f, expandHomeDir(XdgConfigDir, h).path, um)

createWtfConfigDir(f, h, um) == createDir(f, WtfConfigDir(h).path, um)

\* createWtfConfigFile / createWtfSecretsFile: the second stat's error is
\* dropped, so a failed stat makes file.Size() dereference nil.
createDefaultFile(f, name, template, h, um) ==
    UNION {
      IF c.err # "nil" THEN {Out(c.fs, c.ev, "exit")}
      ELSE UNION {
             LET e2 == c.ev \o <<Ev("Stat", c.path, st)>> IN
             IF st # "ok" THEN {Out(c.fs, e2, "panic")}
             ELSE IF c.fs[c.path].data = ""
             THEN {Out(w.fs, e2 \o <<Ev("WriteFile", c.path, Res(w.ok))>>,
                       IF w.ok THEN "return" ELSE "exit") :
                     w \in WriteFileOutcomes(c.fs, c.path, template, OwnerRW, um)}
             ELSE {Out(c.fs, e2, "return")}
             : st \in StatOutcomes(c.fs, c.path)}
      : c \in CreateFile(f, name, h, um)}

\* createWtfConfigFile writing the template whatever the size of the file.
createWtfConfigFile_AlwaysWrite(f, h, um) ==
    UNION {
      IF c.err # "nil" THEN {Out(c.fs, c.ev, "exit")}
      ELSE UNION {
             LET e2 == c.ev \o <<Ev("Stat", c.path, st)>> IN
             IF st # "ok" THEN {Out(c.fs, e2, "panic")}
             ELSE {Out(w.fs, e2 \o <<Ev("WriteFile", c.path, Res(w.ok))>>,
                       IF w.ok THEN "return" ELSE "exit") :
                     w \in WriteFileOutcomes(c.fs, c.path, defaultConfigFile, OwnerRW, um)}
             : st \in StatOutcomes(c.fs, c.path)}
      : c \in CreateFile(f, WtfConfigFile, h, um)}

createWtfConfigFile(f, h, um) == createDefaultFile(f, WtfConfigFile, defaultConfigFile, h, um)

createWtfSecretsFile(f, h, um) == createDefaultFile(f, WtfSecretsFile, defaultSecretsFile, h, um)

\* migrateOldConfig without the panic on a failed Copy.
migrateOldConfig_IgnoreCopyErr(f, h, um) ==
    LET srcDir == expandHomeDir(WtfConfigDirV1, h).path
        destDir == expandHomeDir(WtfConfigDirV2, h).path
    IN  UNION {
          LET e1 == <<Ev("Stat", srcDir, s1)>> IN
          IF IsNotExist(s1) THEN {Out(f, e1, "return")}
          ELSE UNION {
            LET e2 == e1 \o <<Ev("Stat", destDir, s2)>> IN
            IF s2 = "ok" THEN {Out(f, e2, "return")}
            ELSE UNION {
              LET e3 == e2 \o <<Ev("Copy", srcDir, Res(c.ok))>> IN
              UNION {
                LET e4 == e3 \o <<Ev("Stat", destDir, s3)>> IN
                IF s3 = "ok"
                THEN {Out(r.fs, e4 \o <<Ev("RemoveAll", srcDir, Res(r.ok))>>, "return") :
                        r \in RemoveAllOutcomes(c.fs, srcDir)}
                ELSE {Out(c.fs, e4, "return")}
                : s3 \in StatOutcomes(c.fs, destDir)}
              : c \in CopyOutcomes(f, srcDir, destDir, um)}
            : s2 \in StatOutcomes(f, destDir)}
          : s1 \in StatOutcomes(f, srcDir)}

\* migrateOldConfig panicking when the legacy root cannot be removed.
migrateOldConfig_FatalCleanup(f, h, um) ==
    LET srcDir == expandHomeDir(WtfConfigDirV1, h).path
        destDir == expandHomeDir(WtfConfigDirV2, h).path
    IN  UNION {
          LET e1 == <<Ev("Stat", srcDir, s1)>> IN
          IF IsNotExist(s1) THEN {Out(f, e1, "return")}
          ELSE UNION {
            LET e2 == e1 \o <<Ev("Stat", destDir, s2)>> IN
            IF s2 = "ok" THEN {Out(f, e2, "return")}
            ELSE UNION {
              LET e3 == e2 \o <<Ev("Copy", srcDir, Res(c.ok))>> IN
              IF ~c.ok THEN {Out(c.fs, e3, "panic")}
              ELSE UNION {
                LET e4 == e3 \o <<Ev("Stat", destDir, s3)>> IN
                IF s3 = "ok"
                THEN {Out(r.fs, e4 \o <<Ev("RemoveAll", srcDir, Res(r.ok))>>,
                          IF r.ok THEN "return" ELSE "panic") :
                        r \in RemoveAllOutcomes(c.fs, srcDir)}
                ELSE {Out(c.fs, e4, "return")}
                : s3 \in StatOutcomes(c.fs, destDir)}
              : c \in CopyOutcomes(f, srcDir, destDir, um)}
            : s2 \in StatOutcomes(f, destDir)}
          : s1 \in StatOutcomes(f, srcDir)}

migrateOldConfig(f, h, um) ==
    LET srcDir == expandHomeDir(WtfConfigDirV1, h).path
        destDir == expandHomeDir(WtfConfigDirV2, h).path
    IN  UNION {
          LET e1 == <<Ev("Stat", srcDir, s1)>> IN
          IF IsNotExist(s1) THEN {Out(f, e1, "return")}
          ELSE UNION {
            LET e2 == e1 \o <<Ev("Stat", destDir, s2)>> IN
            IF s2 = "ok" THEN {Out(f, e2, "return")}
            ELSE UNION {
              LET e3 == e2 \o <<Ev("Copy", srcDir, Res(c.ok))>> IN
              IF ~c.ok THEN {Out(c.fs, e3, "panic")}
              ELSE UNION {
                LET e4 == e3 \o <<Ev("Stat", destDir, s3)>> IN
                IF s3 = "ok"
                THEN {Out(r.fs, e4 \o <<Ev("RemoveAll", srcDir, Res(r.ok))>>, "return") :
                        r \in RemoveAllOutcomes(c.fs, srcDir)}
                ELSE {Out(c.fs, e4, "return")}
                : s3 \in StatOutcomes(c.fs, destDir)}
              : c \in CopyOutcomes(f, srcDir, destDir, um)}
            : s2 \in StatOutcomes(f, destDir)}
          : s1 \in StatOutcomes(f, srcDir)}

(***************************************************************************)
(* State                                                                   *)
(***************************************************************************)
VARIABLES
    fs,           \* the filesystem: absolute path -> node
    homeDir,      \* what the home lookup yields; <<>> when it fails
    umask,        \* the process umask
    pc,           \* where the current run of Initialize stands
    hasCustom,    \* the argument of the current run
    runs,         \* number of runs started
    trace,        \* system calls of the current run, in order
    fs0,          \* the filesystem when the current run started
    copiedBefore  \* an earlier run's Copy succeeded

vars == <<fs, homeDir, umask, pc, hasCustom, runs, trace, fs0, copiedBefore>>

\* Contents found in the new configuration root before the first run.
NewContents == {"", "b: 2"}

\* A legacy root: absent, or a directory with an optional config file and
\* an optional file in a subdirectory.
LegacyTrees(h, um) ==
    LET root == V1Of(h)
        fm == AndNot(CreatePerm, um)
        dm == AndNot(ModePerm, um)
    IN  {[p \in PathsUnder(root) |-> NoNode]} \cup
        {[p \in PathsUnder(root) |->
            IF p = root THEN DirNode(dm)
            ELSE IF p = SprintfSlash(root, WtfConfigFile)
                 THEN (IF cfg = "none" THEN NoNode ELSE FileNode(cfg, fm))
            ELSE IF p = SprintfSlash(root, SubDirName)
                 THEN (IF sub THEN DirNode(dm) ELSE NoNode)
            ELSE IF p = SprintfSlash(root, ExtraFile)
                 THEN (IF sub THEN FileNode("x", fm) ELSE NoNode)
            ELSE NoNode] :
           cfg \in {"none"} \cup UserContents, sub \in BOOLEAN}

\* The mode of a directory its owner has closed to everybody (chmod 000).
LockedMode == 0

\* The base directory and the new root: the base absent, a regular file, or
\* a directory; below it the new root absent or a directory with optional
\* config and secrets files; or both of them directories closed by their owner.
NewTrees(h, um) ==
    LET xdg == XdgOf(h)
        root == V2Of(h)
        fm == AndNot(CreatePerm, um)
        dm == AndNot(ModePerm, um)
        dom == {xdg} \cup PathsUnder(root)
    IN  {[p \in dom |-> NoNode]} \cup
        {[p \in dom |-> IF p = xdg THEN FileNode("", fm) ELSE NoNode]} \cup
        {[p \in dom |-> IF p = xdg THEN DirNode(dm) ELSE NoNode]} \cup
        {[p \in dom |-> IF p = xdg \/ p = root THEN DirNode(LockedMode) ELSE NoNode]} \cup
        {[p \in dom |->
            IF p = xdg \/ p = root THEN DirNode(dm)
            ELSE IF p = SprintfSlash(root, WtfConfigFile)
                 THEN (IF cfg = "none" THEN NoNode ELSE FileNode(cfg, fm))
            ELSE IF p = SprintfSlash(root, WtfSecretsFile)
                 THEN (IF sec THEN FileNode("k: v", fm) ELSE NoNode)
            ELSE NoNode] :
           cfg \in {"none"} \cup NewContents, sec \in BOOLEAN}

InitFS(h, um) ==
    {[p \in AllPaths |->
        IF p \in HomeDirs THEN DirNode(AndNot(ModePerm, um))
        ELSE IF p \in DOMAIN l THEN l[p]
        ELSE IF p \in DOMAIN n THEN n[p]
        ELSE NoNode] :
       l \in LegacyTrees(h, um), n \in NewTrees(h, um)}

Init ==
    /\ umask \in Umasks
    /\ \E h \in HomeDirs :
         /\ homeDir \in {h, <<>>}
         /\ fs \in InitFS(h, umask)
    /\ pc = "idle"
    /\ hasCustom = FALSE
    /\ runs = 0
    /\ trace = <<>>
    /\ fs0 = fs
    /\ copiedBefore = FALSE

(***************************************************************************)
(* Initialize, one action per call it makes                                *)
(***************************************************************************)
Stopped == pc \in {"idle", "returned", "exited", "panicked"}

CopyOk(tr) == \E i \in 1..Len(tr) : tr[i].op = "Copy" /\ tr[i].res = "ok"

RECURSIVE Faults(_)
\* The number of system calls of tr that reported an error other than ENOENT.
Faults(tr) ==
    IF tr = <<>> THEN 0
    ELSE (IF Head(tr).res \in {"err", "fail"} THEN 1 ELSE 0) + Faults(Tail(tr))

After(exit, next) ==
    IF exit = "return" THEN next
    ELSE IF exit = "exit" THEN "exited" ELSE "panicked"

\* A call of one function of the sequence: any of its outcomes.
Call(outcomes, next) ==
    \E o \in outcomes :
       /\ Faults(trace \o o.ev) <= MaxFaults
       /\ fs' = o.fs
       /\ trace' = trace \o o.ev
       /\ pc' = After(o.exit, next)
       /\ UNCHANGED <<homeDir, umask, hasCustom, runs, fs0, copiedBefore>>

\* Initialize going to the directories first, without the migrator.
Initialize_DirsFirst(hc) ==
    /\ Stopped
    /\ runs < MaxRuns
    /\ hasCustom' = hc
    /\ pc' = "createXdgConfigDir"
    /\ runs' = runs + 1
    /\ trace' = <<>>
    /\ fs0' = fs
    /\ copiedBefore' = (copiedBefore \/ CopyOk(trace))
    /\ UNCHANGED <<fs, homeDir, umask>>

\* Initialize running the migrator whatever the flag.
Initialize_AlwaysMigrate(hc) ==
    /\ Stopped
    /\ runs < MaxRuns
    /\ hasCustom' = hc
    /\ pc' = "migrateOldConfig"
    /\ runs' = runs + 1
    /\ trace' = <<>>
    /\ fs0' = fs
    /\ copiedBefore' = (copiedBefore \/ CopyOk(trace))
    /\ UNCHANGED <<fs, homeDir, umask>>

Initialize(hc) ==
    /\ Stopped
    /\ runs < MaxRuns
    /\ hasCustom' = hc
    /\ pc' = IF hc = FALSE THEN "migrateOldConfig" ELSE "createXdgConfigDir"
    /\ runs' = runs + 1
    /\ trace' = <<>>
    /\ fs0' = fs
    /\ copiedBefore' = (copiedBefore \/ CopyOk(trace))
    /\ UNCHANGED <<fs, homeDir, umask>>

CallMigrateOldConfig ==
    /\ pc = "migrateOldConfig"
    /\ Call(migrateOldConfig(fs, homeDir, umask), "createXdgConfigDir")

CallCreateXdgConfigDir ==
    /\ pc = "createXdgConfigDir"
    /\ Call(createXdgConfigDir(fs, homeDir, umask), "createWtfConfigDir")

CallCreateWtfConfigDir ==
    /\ pc = "createWtfConfigDir"
    /\ Call(createWtfConfigDir(fs, homeDir, umask),
            IF hasCustom = FALSE THEN "createWtfConfigFile" ELSE "returned")

CallCreateWtfConfigFile ==
    /\ pc = "createWtfConfigFile"
    /\ Call(createWtfConfigFile(fs, homeDir, umask), "chmodConfigFile")

CallChmodConfigFile ==
    /\ pc = "chmodConfigFile"
    /\ Call(chmodConfigFile(fs, homeDir), "chmodSecretsFile")

CallChmodSecretsFile ==
    /\ pc = "chmodSecretsFile"
    /\ Call(chmodSecretsFile(fs, homeDir), "returned")

Next ==
    \/ \E hc \in BOOLEAN : Initialize(hc)
    \/ CallMigrateOldConfig
    \/ CallCreateXdgConfigDir
    \/ CallCreateWtfConfigDir
    \/ CallCreateWtfConfigFile
    \/ CallChmodConfigFile
    \/ CallChmodSecretsFile

Spec == Init /\ [][Next]_vars

TypeOK ==
    /\ DOMAIN fs = AllPaths
    /\ \A p \in AllPaths : Exists(fs, p) => Kind(fs, Parent(p)) = "dir"
    /\ runs \in 0..MaxRuns

(***************************************************************************)
(* CreateFile called on its own, several times in a row.  The trace keeps  *)
(* every call: the name asked for, the system calls, the path and error    *)
(* returned; fs0 is the filesystem before the latest call.                 *)
(***************************************************************************)
\* Number of successive calls explored in one behaviour.
MaxCalls == 2

\* The file names CreateFile is called with.
FileNames == {WtfConfigFile, WtfSecretsFile}

CallCreateFile(fileName) ==
    /\ pc \in {"idle", "CreateFile"}
    /\ runs < MaxCalls
    /\ \E o \in CreateFile(fs, fileName, homeDir, umask) :
          /\ fs' = o.fs
          /\ trace' = trace \o <<Ev("CreateFile", fileName, "call")>> \o o.ev
                             \o <<Ev("return", o.path, o.err)>>
    /\ fs0' = fs
    /\ pc' = "CreateFile"
    /\ runs' = runs + 1
    /\ UNCHANGED <<homeDir, umask, hasCustom, copiedBefore>>

NextCreateFile == \E fileName \in FileNames : CallCreateFile(fileName)

SpecCreateFile == Init /\ [][NextCreateFile]_vars

(***************************************************************************)
(* expandHomeDir called on its own.  The trace keeps the latest call: the  *)
(* raw path, then the path and error returned.                             *)
(***************************************************************************)
\* Length of the raw paths explored.
MaxRawLen == 3

\* The characters raw paths are made of.
PathChars == {"~", "/", "\\", ".", "a"}

RawPaths ==
    UNION {[1..k -> PathChars] : k \in 0..MaxRawLen}
    \cup {XdgConfigDir, WtfConfigDirV1, WtfConfigDirV2,
          Sprintf2(WtfConfigDirV2, WtfConfigFile)}

\* The home directories explored, besides a failing lookup.
ExpandHomes == HomeDirs \cup {<<"/", "h", "/", "u">>}

InitExpand ==
    /\ umask \in Umasks
    /\ homeDir \in ExpandHomes \cup {<<>>}
    /\ fs = [p \in AllPaths |->
               IF p \in HomeDirs THEN DirNode(AndNot(ModePerm, umask)) ELSE NoNode]
    /\ pc = "idle"
    /\ hasCustom = FALSE
    /\ runs = 0
    /\ trace = <<>>
    /\ fs0 = fs
    /\ copiedBefore = FALSE

CallExpandHomeDir(raw) ==
    /\ pc \in {"idle", "expandHomeDir"}
    /\ runs < MaxCalls
    /\ trace' = <<Ev("expandHomeDir", raw, "call"),
                  Ev("return", expandHomeDir(raw, homeDir).path,
                               expandHomeDir(raw, homeDir).err)>>
    /\ pc' = "expandHomeDir"
    /\ runs' = runs + 1
    /\ UNCHANGED <<fs, homeDir, umask, hasCustom, fs0, copiedBefore>>

NextExpand == \E raw \in RawPaths : CallExpandHomeDir(raw)

SpecExpand == InitExpand /\ [][NextExpand]_vars

(***************************************************************************)
(* Vocabulary of the properties                                            *)
(***************************************************************************)
\* The home directory the filesystem is laid out under.
Home == CHOOSE h \in HomeDirs : TRUE

LegacyRoot == V1Of(Home)

NewRoot == V2Of(Home)

BaseDir == XdgOf(Home)

ConfigPath == SprintfSlash(NewRoot, WtfConfigFile)

SecretsPath == SprintfSlash(NewRoot, WtfSecretsFile)

Has(tr, op, res) == \E i \in 1..Len(tr) : tr[i].op = op /\ tr[i].res = res

Did(tr, op) == \E i \in 1..Len(tr) : tr[i].op = op

\* The path below the new root that corresponds to p below the legacy root.
InNew(p) == NewRoot \o SubSeq(p, Len(LegacyRoot) + 1, Len(p))

SameContent(a, b) == a.kind = b.kind /\ a.data = b.data

\* The tree at root is the same in f and g.
SameTree(f, g, root) == \A p \in PathsUnder(root) : f[p] = g[p]

\* migrateOldConfig has just returned to Initialize.
MigrateReturned == hasCustom = FALSE /\ pc = "createXdgConfigDir"

\* migrateOldConfig has just ended, by returning or by its panic.
MigrateEnded ==
    \/ MigrateReturned
    \/ /\ hasCustom = FALSE /\ pc = "panicked"
       /\ trace # <<>> /\ trace[Len(trace)].op = "Copy"

(***************************************************************************)
(* C1: when migrateOldConfig starts with the legacy root present and the   *)
(* new root absent, and its Copy and its RemoveAll both succeed, it        *)
(* returns with every node of the legacy tree present below the new root   *)
(* at the same relative path with the same content, and with the legacy    *)
(* root gone.                                                              *)
(***************************************************************************)
C1_MigrationMovesTree ==
    (/\ MigrateReturned
     /\ Exists(fs0, LegacyRoot) /\ ~Exists(fs0, NewRoot)
     /\ Has(trace, "Copy", "ok") /\ Has(trace, "RemoveAll", "ok"))
    => /\ \A p \in Tree(fs0, LegacyRoot) : SameContent(fs[InNew(p)], fs0[p])
       /\ Tree(fs, LegacyRoot) = {}

C1_Witness ==
    /\ MigrateReturned
    /\ ~Exists(fs0, NewRoot)
    /\ fs0[SprintfSlash(LegacyRoot, WtfConfigFile)].data = "a: 1"
    /\ fs0[SprintfSlash(LegacyRoot, ExtraFile)].kind = "file"
    /\ Has(trace, "Copy", "ok") /\ Has(trace, "RemoveAll", "ok")
    /\ fs[ConfigPath].data = "a: 1"
    /\ ~Exists(fs, LegacyRoot)

(***************************************************************************)
(* C2: in every step of a run, legacy nodes disappear or change only when  *)
(* the run's Copy has succeeded and the new root exists, and every legacy  *)
(* node is then present below the new root with the same content; and a    *)
(* run whose Copy failed has panicked with the legacy tree as it was when  *)
(* the run started.                                                        *)
(***************************************************************************)
C2_DeleteOnlyAfterCopy ==
    [][/\ ~SameTree(fs', fs, LegacyRoot)
          => /\ Has(trace', "Copy", "ok")
             /\ Kind(fs', NewRoot) = "dir"
             /\ \A p \in Tree(fs, LegacyRoot) : SameContent(fs'[InNew(p)], fs[p])
       /\ Has(trace', "Copy", "fail")
          => /\ pc' = "panicked"
             /\ SameTree(fs', fs0', LegacyRoot)]_vars

C2_Witness ==
    /\ pc = "panicked"
    /\ Has(trace, "Copy", "fail")
    /\ fs[SprintfSlash(LegacyRoot, WtfConfigFile)].data = "a: 1"
    /\ fs[SprintfSlash(LegacyRoot, ExtraFile)].kind = "file"
    /\ Exists(fs, NewRoot) /\ ~Exists(fs, ConfigPath)

(***************************************************************************)
(* C3: when migrateOldConfig starts with both the legacy root and the new  *)
(* root present, it ends without having copied or deleted and with the     *)
(* filesystem as it found it.                                              *)
(***************************************************************************)
C3_SkipWhenBothExist ==
    (/\ MigrateEnded
     /\ Exists(fs0, LegacyRoot) /\ Exists(fs0, NewRoot))
    => /\ ~Did(trace, "Copy") /\ ~Did(trace, "RemoveAll")
       /\ fs = fs0

(***************************************************************************)
(* C4: once a run's Copy has succeeded, migrateOldConfig never copies or   *)
(* deletes again in a later run and ends with the filesystem as it found   *)
(* it, also when the legacy root is still there.                           *)
(***************************************************************************)
C4_CopiedAtMostOnce ==
    (copiedBefore /\ hasCustom = FALSE)
    => /\ ~Did(trace, "Copy") /\ ~Did(trace, "RemoveAll")
       /\ MigrateEnded => fs = fs0

(***************************************************************************)
(* C5: when Initialize(false) starts with a non-empty config.yml in the    *)
(* legacy root and the new root absent, and no system call fails, it       *)
(* returns with the new root's config.yml holding the legacy content and   *)
(* with the legacy root gone.                                              *)
(***************************************************************************)
C5_LegacyConfigSurvives ==
    (/\ pc = "returned" /\ hasCustom = FALSE
     /\ Faults(trace) = 0
     /\ Exists(fs0, LegacyRoot) /\ ~Exists(fs0, NewRoot)
     /\ fs0[SprintfSlash(LegacyRoot, WtfConfigFile)].kind = "file"
     /\ fs0[SprintfSlash(LegacyRoot, WtfConfigFile)].data # "")
    => /\ fs[ConfigPath].kind = "file"
       /\ fs[ConfigPath].data = fs0[SprintfSlash(LegacyRoot, WtfConfigFile)].data
       /\ ~Exists(fs, LegacyRoot)

C5_Witness ==
    /\ pc = "returned" /\ hasCustom = FALSE
    /\ Faults(trace) = 0
    /\ ~Exists(fs0, NewRoot)
    /\ fs0[SprintfSlash(LegacyRoot, WtfConfigFile)].data = "a: 1"
    /\ fs[ConfigPath].data = "a: 1"
    /\ Has(trace, "Copy", "ok")
    /\ ~Exists(fs, LegacyRoot)

(***************************************************************************)
(* C6: when Initialize(false) has returned, config.yml and secrets.yml     *)
(* both exist in the new root, each with its template if it was absent     *)
(* when the run started, and the permission enforcer has looked at both.   *)
(***************************************************************************)
C6_BothFilesProvisioned ==
    (pc = "returned" /\ hasCustom = FALSE)
    => /\ fs[ConfigPath].kind = "file"
       /\ fs[SecretsPath].kind = "file"
       /\ (~Exists(fs0, ConfigPath) /\ ~Exists(fs0, LegacyRoot))
             => fs[ConfigPath].data = defaultConfigFile
       /\ (~Exists(fs0, SecretsPath) /\ ~Exists(fs0, LegacyRoot))
             => fs[SecretsPath].data = defaultSecretsFile
       /\ \E i \in 1..Len(trace) : trace[i].op = "Stat" /\ trace[i].path = ConfigPath
       /\ \E i \in 1..Len(trace) : trace[i].op = "Stat" /\ trace[i].path = SecretsPath

(***************************************************************************)
(* C7: in every run, with either flag, a config.yml or secrets.yml that    *)
(* is non-empty in the new root when the run starts keeps that content     *)
(* throughout the run.                                                     *)
(***************************************************************************)
C7_NonEmptyNeverRewritten ==
    \A p \in {ConfigPath, SecretsPath} :
       (fs0[p].kind = "file" /\ fs0[p].data # "")
       => (fs[p].kind = "file" /\ fs[p].data = fs0[p].data)

(***************************************************************************)
(* C8: when Initialize(false) starts with no legacy root and no config     *)
(* file, and no system call fails, it returns with config.yml present,     *)
(* holding the default template, with mode 0600.                           *)
(***************************************************************************)
C8_FreshConfigFile ==
    (/\ pc = "returned" /\ hasCustom = FALSE
     /\ Faults(trace) = 0
     /\ ~Exists(fs0, LegacyRoot) /\ ~Exists(fs0, ConfigPath))
    => fs[ConfigPath] = FileNode(defaultConfigFile, OwnerRW)

C8_Witness ==
    /\ pc = "returned" /\ hasCustom = FALSE
    /\ Faults(trace) = 0
    /\ ~Exists(fs0, LegacyRoot) /\ ~Exists(fs0, BaseDir)
    /\ Has(trace, "Create", "ok") /\ Has(trace, "WriteFile", "ok")
    /\ Has(trace, "Chmod", "ok")
    /\ fs[ConfigPath] = FileNode(defaultConfigFile, OwnerRW)

(***************************************************************************)
(* C9: whenever Initialize has returned, the base directory and the        *)
(* configuration directory are directories and, when hasCustom is false,   *)
(* config.yml exists.                                                      *)
(***************************************************************************)
C9_ReturnedMeansPresent ==
    pc = "returned"
    => /\ Kind(fs, BaseDir) = "dir"
       /\ Kind(fs, NewRoot) = "dir"
       /\ hasCustom = FALSE => Exists(fs, ConfigPath)

(***************************************************************************)
(* C10: during and after a run of Initialize(true) nothing has been copied *)
(* or removed and no file has been created, written or chmod-ed: the       *)
(* filesystem differs from the one the run started with at most by the     *)
(* base directory and the configuration directory having been created.     *)
(***************************************************************************)
C10_CustomOnlyMakesDirs ==
    (hasCustom = TRUE)
    => /\ \A i \in 1..Len(trace) :
            /\ trace[i].op \in {"Stat", "Mkdir"}
            /\ trace[i].path \in {BaseDir, NewRoot, <<>>}
       /\ \A p \in AllPaths :
            \/ fs[p] = fs0[p]
            \/ /\ p \in {BaseDir, NewRoot}
               /\ ~Exists(fs0, p) /\ fs[p].kind = "dir"

C10_Witness ==
    /\ hasCustom = TRUE /\ pc = "returned"
    /\ fs0[SprintfSlash(LegacyRoot, WtfConfigFile)].data = "a: 1"
    /\ ~Exists(fs0, BaseDir)
    /\ Kind(fs, BaseDir) = "dir" /\ Kind(fs, NewRoot) = "dir"
    /\ Exists(fs, LegacyRoot) /\ ~Exists(fs, ConfigPath)

(***************************************************************************)
(* C11 (as stated): once migrateOldConfig has copied and returned, in this *)
(* run or an earlier one, exactly one of the legacy root and the new root  *)
(* exists.                                                                 *)
(***************************************************************************)
C11_ExactlyOneRoot ==
    (copiedBefore \/ CopyOk(trace))
    => (Exists(fs, LegacyRoot) # Exists(fs, NewRoot))

\* Only the new layout is present.
OnlyNewRoot == ~Exists(fs, LegacyRoot) /\ Kind(fs, NewRoot) = "dir"

(***************************************************************************)
(* C11 (amended): once migrateOldConfig has copied and its RemoveAll of    *)
(* the legacy root has succeeded, only the new root exists, in that state  *)
(* and in every state after it.                                            *)
(***************************************************************************)
C11_OneRootAfterCleanup ==
    [][/\ Has(trace', "RemoveAll", "ok") => OnlyNewRoot'
       /\ (OnlyNewRoot /\ copiedBefore') => OnlyNewRoot']_vars

C11_Witness ==
    /\ runs = 2 /\ pc = "returned" /\ copiedBefore
    /\ Exists(fs0, NewRoot) /\ ~Exists(fs0, LegacyRoot)
    /\ OnlyNewRoot
    /\ fs[SprintfSlash(NewRoot, ExtraFile)].kind = "file"

\* The calls recorded in tr and what they returned, in order.
CallsOf(tr, op) == SelectSeq(tr, LAMBDA e : e.op = op)

ReturnsOf(tr) == SelectSeq(tr, LAMBDA e : e.op = "return")

\* The events of the latest call recorded in tr.
LastCall(tr, op) ==
    LET starts == {i \in 1..Len(tr) : tr[i].op = op}
    IN  IF starts = {} THEN <<>>
        ELSE SubSeq(tr, CHOOSE i \in starts : \A j \in starts : j <= i, Len(tr))

(***************************************************************************)
(* C12: a call of CreateFile leaves every node that existed before it as   *)
(* it was; and when a call that returned no error is followed by a call    *)
(* with the same name, the second call leaves the filesystem unchanged     *)
(* and, when it returns no error either, returns the same path.            *)
(***************************************************************************)
C12_CreateFileIdempotent ==
    LET c == CallsOf(trace, "CreateFile")
        r == ReturnsOf(trace)
        n == Len(r)
    IN  /\ n >= 1 => \A p \in AllPaths : Exists(fs0, p) => fs[p] = fs0[p]
        /\ (n >= 2 /\ c[n].path = c[n - 1].path /\ r[n - 1].res = "nil")
           => /\ fs = fs0
              /\ r[n].res = "nil" => r[n].path = r[n - 1].path

C12_Witness ==
    LET c == CallsOf(trace, "CreateFile")
        r == ReturnsOf(trace)
    IN  /\ Len(r) = 2
        /\ c[1].path = WtfConfigFile /\ c[2].path = WtfConfigFile
        /\ Has(trace, "Create", "ok")
        /\ r[1].res = "nil" /\ r[2].res = "nil"
        /\ r[1].path = ConfigPath /\ r[2].path = ConfigPath
        /\ fs = fs0 /\ fs[ConfigPath] = FileNode("", AndNot(CreatePerm, umask))

(***************************************************************************)
(* C17: when CreateFile returns no error, it returns a non-empty path and  *)
(* a node exists at that path; when its stat fails with an error other     *)
(* than "not exists", or its os.Create fails, it returns an error with an  *)
(* empty path; and whenever it returns an error the filesystem is as it    *)
(* was before the call.                                                    *)
(***************************************************************************)
C17_PathOnlyIfExists ==
    LET call == LastCall(trace, "CreateFile")
        ret == call[Len(call)]
    IN  call # <<>>
        => /\ ret.res = "nil" => (ret.path # <<>> /\ Exists(fs, ret.path))
           /\ ret.res # "nil" => (ret.path = <<>> /\ fs = fs0)
           /\ (Has(call, "Stat", "err") \/ Has(call, "Create", "fail"))
              => ret.res # "nil"

C17_Witness ==
    LET call == LastCall(trace, "CreateFile")
        ret == call[Len(call)]
    IN  /\ call # <<>>
        /\ homeDir # <<>>
        /\ Kind(fs0, NewRoot) = "dir" /\ ~Exists(fs0, SecretsPath)
        /\ call[1].path = WtfSecretsFile
        /\ Has(call, "Create", "fail")
        /\ ret.res = "create" /\ ret.path = <<>>
        /\ ~Exists(fs, SecretsPath)

\* s without the separator it ends with, if it ends with one.
StripSep(s) ==
    IF s # <<>> /\ s[Len(s)] = Sep THEN SubSeq(s, 1, Len(s) - 1) ELSE s

\* s is made of names other than "." and "..", separated by single
\* separators, with at most one separator at its end.
PlainSuffix(s) ==
    LET g == Segs(s)
    IN  \A i \in 1..Len(g) :
           /\ g[i] # <<".">> /\ g[i] # DotDot
           /\ i < Len(g) => g[i] # <<>>

C20_FormatErrorAndPassThrough ==
    LET raw == trace[1].path
        ret == trace[2]
    IN  pc = "expandHomeDir"
        => /\ (Len(raw) >= 2 /\ raw[1] = "~" /\ raw[2] \notin {"/", "\\"})
              => (ret.res = "format" /\ ret.path = <<>>)
           /\ (raw = <<>> \/ raw[1] # "~")
              => (ret.res = "nil" /\ ret.path = raw)

C20_Witness ==
    /\ pc = "expandHomeDir"
    /\ homeDir = <<>>
    /\ trace[1].path = <<"~", "a", "/">>
    /\ trace[2].res = "format"

\* The file the permission enforcer at pc is about.
ChmodTarget == IF pc = "chmodConfigFile" THEN ConfigPath ELSE SecretsPath

(***************************************************************************)
(* C14: a call of chmodConfigFile or chmodSecretsFile never ends the       *)
(* process and never creates, removes or rewrites a node; when its target  *)
(* does not exist, and when its mode change fails, it returns with the     *)
(* filesystem unchanged.                                                   *)
(***************************************************************************)
C14_ChmodOnlyChangesMode ==
    [][(pc \in {"chmodConfigFile", "chmodSecretsFile"}
        => /\ pc' = (IF pc = "chmodConfigFile" THEN "chmodSecretsFile" ELSE "returned")
           /\ \A p \in AllPaths : SameContent(fs'[p], fs[p])
           /\ ~Exists(fs, ChmodTarget) => fs' = fs
           /\ trace'[Len(trace')] = Ev("Chmod", ChmodTarget, "fail") => fs' = fs)
      ]_vars

\* chmodConfigFile's mode change has failed, chmodSecretsFile has found no
\* secrets file, and Initialize has returned.
C14_Witness ==
    /\ pc = "returned" /\ hasCustom = FALSE
    /\ Exists(fs, ConfigPath) /\ ~Exists(fs, SecretsPath)
    /\ Len(trace) >= 3
    /\ trace[Len(trace) - 1] = Ev("Chmod", ConfigPath, "fail")
    /\ trace[Len(trace)] = Ev("Stat", SecretsPath, "notexist")

\* Event e belongs to the migrator: its stat of the legacy root, its copy
\* or its deletion.
MigratorEvent(e) ==
    \/ e.op \in {"Copy", "RemoveAll"}
    \/ e.op = "Stat" /\ e.path = LegacyRoot

\* Event e belongs to a step that provisions the new layout.
ProvisionEvent(e) ==
    \/ e.op \in {"Mkdir", "Create", "WriteFile", "Chmod"}
    \/ e.path = BaseDir

\* Event e is about a managed file.
FileEvent(e) ==
    \/ e.op \in {"Create", "WriteFile", "Chmod"}
    \/ e.path \in {ConfigPath, SecretsPath}

(***************************************************************************)
(* C15: in a run of Initialize(false) with a home directory, the first     *)
(* system call is the migrator's stat of the legacy root, the migrator     *)
(* starts on the filesystem the run started with, and none of its calls    *)
(* comes after a call of a provisioning step; in every run the new root    *)
(* is created only after the stat of the base directory, and a managed     *)
(* file is touched only after the stat of the base directory and then the  *)
(* stat of the new root, with no directory created afterwards.             *)
(***************************************************************************)
C15_MigratorThenDirsThenFiles ==
    LET n == Len(trace) IN
    /\ pc = "migrateOldConfig" => (hasCustom = FALSE /\ trace = <<>> /\ fs = fs0)
    /\ (hasCustom = FALSE /\ ~Stopped) => pc = "migrateOldConfig" \/ trace # <<>>
    /\ homeDir # <<>> =>
         /\ (hasCustom = FALSE /\ n > 0) => trace[1] \in {Ev("Stat", LegacyRoot, st) :
                                                       st \in {"ok", "notexist", "err"}}
         /\ \A i, j \in 1..n :
               (i < j /\ ProvisionEvent(trace[i])) => ~MigratorEvent(trace[j])
         /\ \A j \in 1..n :
               (trace[j].op = "Mkdir" /\ trace[j].path = NewRoot)
               => \E i \in 1..(j - 1) : trace[i].op = "Stat" /\ trace[i].path = BaseDir
         /\ \A j \in 1..n :
               FileEvent(trace[j])
               => /\ \E i, k \in 1..(j - 1) :
                        /\ i < k
                        /\ trace[i].op = "Stat" /\ trace[i].path = BaseDir
                        /\ trace[k].op = "Stat" /\ trace[k].path = NewRoot
                  /\ \A m \in (j + 1)..n : trace[m].op # "Mkdir"

\* A run of Initialize(false) that has found the new root absent and
\* migrated, then found both directories and set the mode of the file.
C15_Witness ==
    /\ pc = "returned" /\ hasCustom = FALSE /\ homeDir # <<>>
    /\ ~Exists(fs0, NewRoot)
    /\ Has(trace, "Copy", "ok")
    /\ \E i, k \in 1..Len(trace) :
          /\ i < k
          /\ trace[i] = Ev("Stat", BaseDir, "ok")
          /\ trace[k] = Ev("Stat", NewRoot, "ok")
    /\ Has(trace, "Chmod", "ok")

(***************************************************************************)
(* C16: when the resolution of the package's paths fails (the home lookup  *)
(* fails), no step of Initialize performs a system call on the path the    *)
(* failed resolution returned.                                             *)
(***************************************************************************)
C16_NoCallOnFailedResolution ==
    expandHomeDir(WtfConfigDirV2, homeDir).err # "nil"
    => \A i \in 1..Len(trace) :
          trace[i].path # expandHomeDir(WtfConfigDirV2, homeDir).path

(***************************************************************************)
(* C18: when the copy has succeeded and the deletion of the legacy root    *)
(* has just failed, migrateOldConfig has returned to Initialize, which is  *)
(* at its next step createXdgConfigDir, and every node of the legacy tree  *)
(* is below the new root with the same content.                            *)
(***************************************************************************)
C18_FailedCleanupNotFatal ==
    (/\ hasCustom = FALSE /\ trace # <<>>
     /\ trace[Len(trace)] = Ev("RemoveAll", LegacyRoot, "fail"))
    => /\ pc = "createXdgConfigDir"
       /\ Has(trace, "Copy", "ok")
       /\ \A p \in Tree(fs0, LegacyRoot) : SameContent(fs[InNew(p)], fs0[p])

\* The deletion has failed, the copy has the legacy configuration file, and
\* Initialize has gone on to its end.
C18_Witness ==
    /\ pc = "returned" /\ hasCustom = FALSE
    /\ Has(trace, "RemoveAll", "fail")
    /\ Exists(fs, LegacyRoot)
    /\ fs0[SprintfSlash(LegacyRoot, WtfConfigFile)].data = "a: 1"
    /\ fs[ConfigPath].data = "a: 1"

\* The directory the provisioner at pc is about.
DirTarget == IF pc = "createXdgConfigDir" THEN BaseDir ELSE NewRoot

(***************************************************************************)
(* C19: a call of createXdgConfigDir or createWtfConfigDir whose target    *)
(* exists, whatever its mode, changes nothing and goes on to the next      *)
(* step of Initialize; and every Mkdir of a run comes right after a stat   *)
(* of the same path that reported 'not exists'.                            *)
(***************************************************************************)
C19_CreateDirIdempotent ==
    [][(/\ (pc \in {"createXdgConfigDir", "createWtfConfigDir"}
            /\ homeDir # <<>> /\ Exists(fs, DirTarget))
           => /\ fs' = fs
              /\ pc' \notin {"exited", "panicked"}
              /\ ~Did(trace', "Mkdir")
        /\ \A j \in 1..Len(trace') :
              trace'[j].op = "Mkdir"
              => j > 1 /\ trace'[j - 1] = Ev("Stat", trace'[j].path, "notexist"))
      ]_vars

\* createXdgConfigDir has found the closed base directory and has left it
\* as it was.
C19_Witness ==
    /\ pc = "createWtfConfigDir" /\ hasCustom = TRUE
    /\ fs[BaseDir] = DirNode(LockedMode)
    /\ fs = fs0
    /\ trace = <<Ev("Stat", BaseDir, "ok")>>

====
